---- MODULE Spec2Model ----
(***************************************************************************)
(* The cross-compiler benchmarking harness of scripts/                     *)
(* performance_validation.py (class PerformanceValidator), and the         *)
(* criterion driver of scripts/run_honest_benchmarks.py.                   *)
(*                                                                         *)
(* The specifications share the variables below:                           *)
(*   SpecDetect  detect_compilers, probe by probe, over every outcome a    *)
(*               probe process can have;                                   *)
(*   SpecTrial   the single-trial calls benchmark_*_compiler, statement by *)
(*               statement, with the files they create and delete;         *)
(*   Spec        run_comprehensive_benchmarks followed by                  *)
(*               generate_performance_report, each trial one step;         *)
(*   SpecRedetect  detect_compilers called a second time on a machine that *)
(*               answers each probe as it did the first time;              *)
(*   SpecCorpus  Spec over corpora other than the built-in one;            *)
(*   SpecReport  generate_performance_report as a function of the results  *)
(*               list, over lists of one or two records of one test;       *)
(*   SpecThreads two threads, each in a single-trial call, interleaved;    *)
(*   SpecLoop    the trial loop of one pair, each of its single-trial      *)
(*               calls statement by statement;                             *)
(*   SpecTiming  the single-trial call under a clock that also advances    *)
(*               outside the build and can be set back;                    *)
(*   SpecHonest  main of scripts/run_honest_benchmarks.py: the benchmark   *)
(*               command, the parse of its output, the analysis, the files;*)
(*   SpecAnalyze analyze_results as a function of the parsed results.      *)
(*                                                                         *)
(* Representation.  Wall-clock time is counted in whole ticks of one       *)
(* second, so `(time.time() - start_time) * 1000` is a multiple of 1000    *)
(* and the interpolated median (a + b) / 2 is an exact integer.  The       *)
(* standard deviation is kept as its square, an exact fraction             *)
(* [num, den] (variance = num / den).  Python's None in an Optional[int]   *)
(* field is the integer None below.  A version string is the sequence of   *)
(* its whitespace-delimited tokens.                                        *)
(***************************************************************************)
EXTENDS Integers, Sequences, FiniteSets, TLC

VARIABLES
    pc,                 \* where the harness is (see each specification)
    exc,                \* the exception that left the current operation, or "none"
    compilers,          \* self.compilers: key -> CompilerInfo
    results,            \* self.results: sequence of BenchmarkResult
    proc,               \* the child process the harness last spawned, or NoProc
    fs,                 \* the files on disk: set of [path, size]
    clock,              \* time.time(), in ticks
    frame,              \* locals of the running single-trial call
    ret,                \* the BenchmarkResult the last single-trial call returned
    calls,              \* number of single-trial calls started (SpecTrial)
    test_idx,           \* run_comprehensive_benchmarks: position in test_programs
    comp_idx,           \*   position in programs.items()
    i,                  \*   the loop variable of `for i in range(iterations)`
    iteration_results,  \*   durations of the successful trials of the pair
    result,             \*   the BenchmarkResult of the last trial run
    stats,              \*   what the step just taken computed for a pair, or NoLine
    sample,             \* ghost: successful durations of the pair, duration -> count
    failures,           \* ghost: failed trials of the pair
    ranking,            \* generate_performance_report: test -> sorted results
    host,               \* what each probe does on this machine: key -> outcome
    detected,           \* the registries earlier detect_compilers calls returned
    test_programs,      \* the corpus: sequence of [test_name, programs]
    std_devs,           \* ghost (SpecReport): the std_dev computed for each record
    parked,             \* SpecThreads: the contexts of the threads not running
    honest              \* run_honest_benchmarks.main: its locals

vars == <<pc, exc, compilers, results, proc, fs, clock, frame, ret, calls,
          test_idx, comp_idx, i, iteration_results, result, stats,
          sample, failures, ranking, host, detected, test_programs, std_devs,
          parked, honest>>

(***************************************************************************)
(* Bounds of the model.                                                    *)
(***************************************************************************)
MaxTokens == 3      \* tokens on one line of a probe's stdout
MaxLines == 1       \* lines of a probe's stdout
MaxDuration == 2    \* a build takes 1..MaxDuration ticks
MaxSize == 1        \* an artifact has 1..MaxSize bytes
MaxNames == 2       \* temporary names tempfile can draw
MaxCalls == 1       \* single-trial calls in one behaviour of SpecTrial
MaxWork == 1        \* ticks a single-trial call spends outside the build
MaxValue == 1       \* the number in a time string is 0..MaxValue
MaxOutput == 3      \* lines of the benchmark command's stdout

(***************************************************************************)
(* Values.                                                                 *)
(***************************************************************************)
None == -1

NoTimeout == 0

\* A child process: the command, the timeout subprocess.run was given, whether
\* it is still running, and (once it has exited) its returncode and stdout.
Process(cmd, timeout, alive, returncode, stdout) ==
    [cmd |-> cmd, timeout |-> timeout, alive |-> alive,
     returncode |-> returncode, stdout |-> stdout]

NoProc == Process("none", NoTimeout, FALSE, None, <<>>)

Keys == <<"ea", "rust", "cpp", "go">>

KeySet == {Keys[k] : k \in DOMAIN Keys}

CompilerInfo(name, version, available) ==
    [name |-> name, version |-> version, available |-> available]

BenchmarkResult(compiler, test_name, time_ms, memory_mb, success, size_bytes) ==
    [compiler |-> compiler, test_name |-> test_name,
     compilation_time_ms |-> time_ms, memory_usage_mb |-> memory_mb,
     success |-> success, output_size_bytes |-> size_bytes]

NoResult == BenchmarkResult("none", "none", 0, None, FALSE, None)

\* The durations a build can take, in milliseconds.
Durations == {d * 1000 : d \in 1..MaxDuration}

Fraction(num, den) == [num |-> num, den |-> den]

\* What run_comprehensive_benchmarks has for a pair after its trials: the
\* locals median_time and std_dev, or failed when no trial succeeded and the
\* FAILED line is printed.
Line(compiler, test_name, failed, median_time, std_dev) ==
    [compiler |-> compiler, test_name |-> test_name, failed |-> failed,
     median_time |-> median_time, std_dev |-> std_dev]

NoLine == Line("none", "none", FALSE, 0, Fraction(0, 1))

\* What run_benchmark returns: None, or the text of stdout as its lines
\* (the empty text has no line).
Output(lines) == [none |-> FALSE, lines |-> lines]

NoOutput == [none |-> TRUE, lines |-> <<>>]

\* The locals of run_honest_benchmarks.main: output, results (group -> name
\* -> time string) and analysis["comparisons"] (comparison -> key -> number).
NoHonest == [output |-> NoOutput, results |-> <<>>, comparisons |-> <<>>]

\* The locals of a single-trial call, and the ghosts: spawned (the call has
\* started a process), produced (the size of the artifact the build wrote),
\* built (the ticks the build has run), worked (the ticks the call has spent
\* in its own statements) and adjusted (the system clock was set back while
\* the build ran).
NoFrame == [compiler |-> "none", test_name |-> "none", temp_file |-> 0,
            start_time |-> 0, compilation_time |-> 0, success |-> FALSE,
            output_size |-> None, spawned |-> FALSE, produced |-> None,
            built |-> 0, worked |-> 0, adjusted |-> FALSE]

(***************************************************************************)
(* The host: what an external process can do.                              *)
(***************************************************************************)
Word(k) == "w" \o ToString(k)

Lines == {[k \in 1..n |-> Word(k)] : n \in 0..MaxTokens}

Stdouts == UNION {[1..m -> Lines] : m \in 1..MaxLines}

\* missing: the binary is not found; noexec: it is there and cannot be executed;
\* hang: the process never exits; exit: it exits with returncode and stdout.
ProbeOutcomes ==
    {[kind |-> "missing"], [kind |-> "noexec"], [kind |-> "hang"]}
    \cup {[kind |-> "exit", returncode |-> rc, stdout |-> s] :
            rc \in {0, 1}, s \in Stdouts}

\* A machine whose probes are left open: each may come out in any way.
AnyHost == [key \in KeySet |-> [kind |-> "any"]]

\* subprocess.run(cmd, timeout=timeout): how the call ends for the caller.
subprocess_run(timeout, o) ==
    CASE o.kind = "missing" -> "FileNotFoundError"
      [] o.kind = "noexec" -> "PermissionError"
      [] o.kind = "hang" ->
            IF timeout = NoTimeout THEN "blocks" ELSE "TimeoutExpired"
      [] OTHER -> "completed"

RECURSIVE Flatten(_)
Flatten(lines) ==
    IF lines = <<>> THEN <<>> ELSE Head(lines) \o Flatten(Tail(lines))

\* str.strip().split(): the whitespace-delimited tokens of the whole output.
strip_split(stdout) == Flatten(stdout)

\* str.split('\n')[0]: the first line.
first_line(stdout) == stdout[1]

(***************************************************************************)
(* The corpus: create_test_programs.  Every test has one program per key,  *)
(* in this order.                                                          *)
(***************************************************************************)
create_test_programs ==
    << [test_name |-> "fibonacci", programs |-> Keys],
       [test_name |-> "sorting", programs |-> Keys] >>

TestNames == {create_test_programs[k].test_name : k \in DOMAIN create_test_programs}

(***************************************************************************)
(* detect_compilers.  Each Check* is one try block of it; `after` is the   *)
(* position once the block is done.                                        *)
(***************************************************************************)
Put(key, info) ==
    [k \in DOMAIN compilers \cup {key} |->
        IF k = key THEN info ELSE compilers[k]]

Parsed(version) == [exc |-> "none", version |-> version]

IndexError == [exc |-> "IndexError", version |-> <<>>]

\* parts[k] of Python, 0-based
Index(parts, k) == IF k + 1 <= Len(parts) THEN Parsed(<<parts[k + 1]>>) ELSE IndexError

\* What each try block reads out of the stdout of a probe that exited 0:
\* ea: the constant '0.1.1'; rust: result.stdout.strip().split()[1];
\* cpp: result.stdout.split('\n')[0]; go: result.stdout.strip().split()[2].
version_of(key, stdout) ==
    CASE key = "ea" -> Parsed(<<"0.1.1">>)
      [] key = "rust" -> Index(strip_split(stdout), 1)
      [] key = "cpp" -> Parsed(first_line(stdout))
      [] OTHER -> Index(strip_split(stdout), 2)

succeeded_whatever(returncode) == TRUE

\* `result.returncode == 0`, the test each try block makes of its probe
succeeded(returncode) == returncode = 0

\* What one try block does with the outcome o of its probe.
Check(key, name, cmd, fallback, o, after) ==
    LET how == subprocess_run(NoTimeout, o) IN
    /\ proc' = CASE how = "completed" ->
                       Process(cmd, NoTimeout, FALSE, o.returncode, o.stdout)
                  [] how = "blocks" -> Process(cmd, NoTimeout, TRUE, None, <<>>)
                  [] OTHER -> proc
    /\ CASE how = "FileNotFoundError" ->
              /\ compilers' = Put(key, CompilerInfo(name, fallback, FALSE))
              /\ pc' = after
              /\ exc' = exc
         [] how = "PermissionError" ->
              /\ pc' = "raised"
              /\ exc' = how
              /\ compilers' = compilers
         [] how = "blocks" ->
              /\ pc' = "blocked"
              /\ UNCHANGED <<exc, compilers>>
         [] OTHER ->
              IF succeeded(o.returncode)
              THEN LET parsed == version_of(key, o.stdout) IN
                   IF parsed.exc # "none"
                   THEN /\ pc' = "raised"
                        /\ exc' = parsed.exc
                        /\ compilers' = compilers
                   ELSE /\ compilers' =
                             Put(key, CompilerInfo(name, parsed.version, TRUE))
                        /\ pc' = after
                        /\ exc' = exc
              ELSE /\ compilers' = Put(key, CompilerInfo(name, fallback, FALSE))
                   /\ pc' = after
                   /\ exc' = exc

DetectFrame ==
    UNCHANGED <<results, fs, clock, frame, ret, calls, test_idx, comp_idx, i,
                iteration_results, result, stats, sample, failures, ranking,
                host, detected, test_programs, std_devs, parked, honest>>

probe_changing(key) == ProbeOutcomes

\* The outcomes the probe of a toolchain can have on this machine: the one
\* the machine is known to give, or any.
probe(key) == IF host[key].kind = "any" THEN ProbeOutcomes ELSE {host[key]}

\* __init__ calling detect_compilers: compilers = {}
detect_compilers ==
    /\ pc = "construct"
    /\ pc' = "check_ea"
    /\ compilers' = <<>>
    /\ UNCHANGED <<exc, proc>>
    /\ DetectFrame

CheckEa ==
    /\ pc = "check_ea"
    /\ \E o \in probe("ea") :
         Check("ea", "Ea", "cargo build", <<"0.1.1">>, o, "check_rust")
    /\ DetectFrame

CheckRust ==
    /\ pc = "check_rust"
    /\ \E o \in probe("rust") :
         Check("rust", "Rust", "rustc --version", <<"unknown">>, o,
               "check_cpp")
    /\ DetectFrame

CheckCpp ==
    /\ pc = "check_cpp"
    /\ \E o \in probe("cpp") :
         Check("cpp", "C++", "g++ --version", <<"unknown">>, o,
               "check_go")
    /\ DetectFrame

\* the last block, then `return compilers` into self.compilers
CheckGo ==
    /\ pc = "check_go"
    /\ \E o \in probe("go") :
         Check("go", "Go", "go version", <<"unknown">>, o,
               "constructed")
    /\ DetectFrame

InitDetect ==
    /\ pc = "construct"
    /\ exc = "none"
    /\ compilers = <<>>
    /\ results = <<>>
    /\ proc = NoProc
    /\ fs = {}
    /\ clock = 0
    /\ frame = NoFrame
    /\ ret = NoResult
    /\ calls = 0
    /\ test_idx = 1
    /\ comp_idx = 1
    /\ i = 0
    /\ iteration_results = <<>>
    /\ result = NoResult
    /\ stats = NoLine
    /\ sample = [d \in Durations |-> 0]
    /\ failures = 0
    /\ ranking = <<>>
    /\ host = AnyHost
    /\ detected = <<>>
    /\ test_programs = create_test_programs
    /\ std_devs = <<>>
    /\ parked = <<>>
    /\ honest = NoHonest

NextDetect == detect_compilers \/ CheckEa \/ CheckRust \/ CheckCpp \/ CheckGo

SpecDetect == InitDetect /\ [][NextDetect]_vars

(***************************************************************************)
(* detect_compilers called again, by a caller that keeps the registry the  *)
(* first call returned.  The machine answers a probe the same way whenever *)
(* it is asked: no probe installs or removes a toolchain.                  *)
(***************************************************************************)
Missing == [kind |-> "missing"]

\* The machines SpecRedetect starts from: any outcome for the probes of up
\* to two toolchains, the other toolchains not installed.
Machines ==
    {[key \in KeySet |-> IF key = a THEN oa ELSE IF key = b THEN ob ELSE Missing] :
        a \in KeySet, b \in KeySet, oa \in ProbeOutcomes, ob \in ProbeOutcomes}

\* a second `self.detect_compilers()`: compilers = {} and the four blocks
detect_compilers_again ==
    /\ pc = "constructed"
    /\ detected = <<>>
    /\ detected' = Append(detected, compilers)
    /\ compilers' = <<>>
    /\ pc' = "check_ea"
    /\ UNCHANGED <<exc, proc, results, fs, clock, frame, ret, calls, test_idx,
                   comp_idx, i, iteration_results, result, stats, sample,
                   failures, ranking, host, test_programs, std_devs, parked, honest>>

InitRedetect ==
    /\ pc = "construct"
    /\ exc = "none"
    /\ compilers = <<>>
    /\ results = <<>>
    /\ proc = NoProc
    /\ fs = {}
    /\ clock = 0
    /\ frame = NoFrame
    /\ ret = NoResult
    /\ calls = 0
    /\ test_idx = 1
    /\ comp_idx = 1
    /\ i = 0
    /\ iteration_results = <<>>
    /\ result = NoResult
    /\ stats = NoLine
    /\ sample = [d \in Durations |-> 0]
    /\ failures = 0
    /\ ranking = <<>>
    /\ host \in Machines
    /\ detected = <<>>
    /\ test_programs = create_test_programs
    /\ std_devs = <<>>
    /\ parked = <<>>
    /\ honest = NoHonest

NextRedetect ==
    \/ detect_compilers
    \/ CheckEa
    \/ CheckRust
    \/ CheckCpp
    \/ CheckGo
    \/ detect_compilers_again

SpecRedetect == InitRedetect /\ [][NextRedetect]_vars

(***************************************************************************)
(* The registries detect_compilers returns, by the set of available keys.  *)
(***************************************************************************)
Name(key) ==
    CASE key = "ea" -> "Ea" [] key = "rust" -> "Rust"
      [] key = "cpp" -> "C++" [] OTHER -> "Go"

Registry(available) ==
    [key \in KeySet |->
        CompilerInfo(Name(key),
                     IF key = "ea" THEN <<"0.1.1">>
                     ELSE IF key \in available THEN <<Word(1)>>
                     ELSE <<"unknown">>,
                     key \in available)]

(***************************************************************************)
(* The single-trial calls benchmark_ea_compiler, benchmark_rust_compiler,  *)
(* benchmark_cpp_compiler and benchmark_go_compiler: the same statements,  *)
(* with a different suffix, command and artifact name.                     *)
(***************************************************************************)
Suffix(compiler) ==
    CASE compiler = "ea" -> ".ea" [] compiler = "rust" -> ".rs"
      [] compiler = "cpp" -> ".cpp" [] OTHER -> ".go"

\* temp_file.replace(suffix, '.ll'), and temp_file.replace('.go', '') for go:
\* the directory and the name tempfile draws hold no '.', so only the
\* suffix is replaced.
ArtifactSuffix(compiler) == IF compiler = "go" THEN "" ELSE ".ll"

Command(compiler) ==
    CASE compiler = "ea" -> "target/release/ea --emit-llvm"
      [] compiler = "rust" -> "rustc -O --emit=llvm-ir"
      [] compiler = "cpp" -> "g++ -O2 -S -emit-llvm"
      [] OTHER -> "go build"

Path(name, suffix) == <<name, suffix>>

exists(path) == \E f \in fs : f.path = path

getsize(path) == (CHOOSE f \in fs : f.path = path).size

unlink_nothing(path) == fs

\* os.unlink(path)
unlink(path) == {f \in fs : f.path # path}

temp_path == Path(frame.temp_file, Suffix(frame.compiler))

llvm_file == Path(frame.temp_file, ArtifactSuffix(frame.compiler))

always_available(key) == TRUE

\* self.compilers[key].available
is_available(key) == compilers[key].available

TrialFrame ==
    UNCHANGED <<compilers, results, test_idx, comp_idx, i, iteration_results,
                result, stats, sample, failures, ranking, host, detected,
                test_programs, std_devs, parked, honest>>

\* `if not self.compilers[c].available: return ...`, else the `with` block:
\* NamedTemporaryFile(delete=False) creates a file under a name not in use.
Call(compiler, test_name) ==
    /\ exc' = "none"
    /\ IF ~is_available(compiler)
       THEN /\ ret' = BenchmarkResult(compiler, test_name, 0, None, FALSE, None)
            /\ pc' = "returned"
            /\ frame' = [NoFrame EXCEPT !.compiler = compiler,
                                        !.test_name = test_name]
            /\ fs' = fs
       ELSE \E name \in 1..MaxNames :
            /\ ~exists(Path(name, Suffix(compiler)))
            /\ fs' = fs \cup {[path |-> Path(name, Suffix(compiler)), size |-> 0]}
            /\ frame' = [NoFrame EXCEPT !.compiler = compiler,
                                        !.test_name = test_name,
                                        !.temp_file = name]
            /\ pc' = "try"
            /\ ret' = ret
    /\ UNCHANGED <<proc, clock>>
    /\ TrialFrame

\* A single-trial call made by a caller that is not in one.
Enter(compiler, test_name) ==
    /\ pc \in {"idle", "returned", "raised"}
    /\ calls < MaxCalls
    /\ calls' = calls + 1
    /\ Call(compiler, test_name)

benchmark_ea_compiler == \E test_name \in TestNames : Enter("ea", test_name)

benchmark_rust_compiler == \E test_name \in TestNames : Enter("rust", test_name)

benchmark_cpp_compiler == \E test_name \in TestNames : Enter("cpp", test_name)

benchmark_go_compiler == \E test_name \in TestNames : Enter("go", test_name)

\* start_time = time.time(); subprocess.run(...) starts the build, or raises
\* when the binary cannot be started (the finally block runs next).
SpawnOutcomes == {[kind |-> "missing"], [kind |-> "noexec"], [kind |-> "started"]}

Spawn ==
    /\ pc = "try"
    /\ \E o \in SpawnOutcomes :
         LET how == subprocess_run(NoTimeout, o) IN
         IF how = "completed"
         THEN /\ proc' = Process(Command(frame.compiler), NoTimeout, TRUE, None, <<>>)
              /\ frame' = [frame EXCEPT !.start_time = clock, !.spawned = TRUE]
              /\ pc' = "running"
              /\ exc' = exc
         ELSE /\ frame' = [frame EXCEPT !.start_time = clock]
              /\ pc' = "finally"
              /\ exc' = how
              /\ proc' = proc
    /\ UNCHANGED <<fs, clock, ret, calls>>
    /\ TrialFrame

\* A tick of a running build.
Built(f) == [f EXCEPT !.built = @ + 1]

\* Time passes while the build runs (and the builds of the other threads
\* with it).
Tick ==
    /\ pc = "running"
    /\ frame.built < MaxDuration
    /\ clock' = clock + 1
    /\ frame' = Built(frame)
    /\ parked' = [k \in DOMAIN parked |->
                    IF parked[k].pc = "running"
                    THEN [parked[k] EXCEPT !.frame = Built(@)]
                    ELSE parked[k]]
    /\ UNCHANGED <<pc, exc, proc, fs, ret, calls>>
    /\ UNCHANGED <<compilers, results, test_idx, comp_idx, i, iteration_results,
                   result, stats, sample, failures, ranking, host, detected,
                   test_programs, std_devs, honest>>

\* The build writes its output file, at the path the harness looks at: the
\* -o argument of rustc, g++ and go build, and for ea the input path with
\* the suffix .ll.  A build may write it whether it then exits 0 or not, and
\* replaces what is at that path.
ChildWrites ==
    /\ pc = "running"
    /\ frame.produced = None
    /\ \E size \in 1..MaxSize :
         /\ fs' = unlink(llvm_file) \cup {[path |-> llvm_file, size |-> size]}
         /\ frame' = [frame EXCEPT !.produced = size]
    /\ UNCHANGED <<pc, exc, proc, clock, ret, calls>>
    /\ TrialFrame

not_waited_for(p, returncode) == p

\* subprocess.run returns its CompletedProcess once the child has exited.
completed(p, returncode) == [p EXCEPT !.alive = FALSE, !.returncode = returncode]

\* The build exits and subprocess.run returns:
\* compilation_time = (time.time() - start_time) * 1000;
\* success = result.returncode == 0; output_size = None
ChildExits ==
    /\ pc = "running"
    /\ frame.built > 0
    /\ \E returncode \in {0, 1} :
         /\ proc' = completed(proc, returncode)
         /\ frame' = [frame EXCEPT
                        !.compilation_time = (clock - frame.start_time) * 1000,
                        !.success = (returncode = 0),
                        !.output_size = None]
    /\ pc' = "exited"
    /\ UNCHANGED <<exc, fs, clock, ret, calls>>
    /\ TrialFrame

\* The build never exits: subprocess.run was given no timeout and waits.
ChildHangs ==
    /\ pc = "running"
    /\ subprocess_run(proc.timeout, [kind |-> "hang"]) = "blocks"
    /\ pc' = "blocked"
    /\ UNCHANGED <<exc, proc, fs, clock, frame, ret, calls>>
    /\ TrialFrame

\* if os.path.exists(llvm_file): output_size = os.path.getsize(llvm_file)
GetSize ==
    /\ pc = "exited"
    /\ IF exists(llvm_file)
       THEN /\ frame' = [frame EXCEPT !.output_size = getsize(llvm_file)]
            /\ pc' = "unlink"
       ELSE /\ frame' = frame
            /\ pc' = "finally"
    /\ UNCHANGED <<exc, proc, fs, clock, ret, calls>>
    /\ TrialFrame

\* os.unlink(llvm_file), which raises when the file is no longer there
UnlinkArtifact ==
    /\ pc = "unlink"
    /\ fs' = unlink(llvm_file)
    /\ exc' = IF exists(llvm_file) THEN exc ELSE "FileNotFoundError"
    /\ pc' = "finally"
    /\ UNCHANGED <<proc, clock, frame, ret, calls>>
    /\ TrialFrame

\* finally: os.unlink(temp_file); then the return, or the exception goes on.
Finally ==
    /\ pc = "finally"
    /\ fs' = unlink(temp_path)
    /\ IF exc = "none"
       THEN /\ ret' = BenchmarkResult(frame.compiler, frame.test_name,
                                      frame.compilation_time, None,
                                      frame.success, frame.output_size)
            /\ pc' = "returned"
       ELSE /\ ret' = ret
            /\ pc' = "raised"
    /\ UNCHANGED <<exc, proc, clock, frame, calls>>
    /\ TrialFrame

InitTrial ==
    /\ pc = "idle"
    /\ exc = "none"
    /\ compilers \in {Registry(available) : available \in SUBSET KeySet}
    /\ results = <<>>
    /\ proc = NoProc
    /\ fs = {}
    /\ clock = 0
    /\ frame = NoFrame
    /\ ret = NoResult
    /\ calls = 0
    /\ test_idx = 1
    /\ comp_idx = 1
    /\ i = 0
    /\ iteration_results = <<>>
    /\ result = NoResult
    /\ stats = NoLine
    /\ sample = [d \in Durations |-> 0]
    /\ failures = 0
    /\ ranking = <<>>
    /\ host = AnyHost
    /\ detected = <<>>
    /\ test_programs = create_test_programs
    /\ std_devs = <<>>
    /\ parked = <<>>
    /\ honest = NoHonest

NextTrial ==
    \/ benchmark_ea_compiler
    \/ benchmark_rust_compiler
    \/ benchmark_cpp_compiler
    \/ benchmark_go_compiler
    \/ Spawn
    \/ Tick
    \/ ChildWrites
    \/ ChildExits
    \/ ChildHangs
    \/ GetSize
    \/ UnlinkArtifact
    \/ Finally

SpecTrial == InitTrial /\ [][NextTrial]_vars

(***************************************************************************)
(* The single-trial call and the clock it reads: time.time() is the wall   *)
(* clock of the system, which advances while the call executes its own     *)
(* statements as it does while the build runs, and which the system may    *)
(* set back.                                                               *)
(***************************************************************************)
\* Time passes while the call is in its own statements: before start_time
\* is read, and after compilation_time has been computed.
Work ==
    /\ pc \in {"try", "exited", "unlink", "finally"}
    /\ frame.worked < MaxWork
    /\ clock' = clock + 1
    /\ frame' = [frame EXCEPT !.worked = @ + 1]
    /\ UNCHANGED <<pc, exc, proc, fs, ret, calls>>
    /\ TrialFrame

\* The system clock is set back while the build runs: time.time() returns
\* a lower value than it did.
SetBack ==
    /\ pc = "running"
    /\ ~frame.adjusted
    /\ \E d \in 1..(MaxDuration + 1) : clock' = clock - d
    /\ frame' = [frame EXCEPT !.adjusted = TRUE]
    /\ UNCHANGED <<pc, exc, proc, fs, ret, calls>>
    /\ TrialFrame

InitTiming ==
    /\ pc = "idle"
    /\ exc = "none"
    /\ compilers = Registry(KeySet)
    /\ results = <<>>
    /\ proc = NoProc
    /\ fs = {}
    /\ clock = 0
    /\ frame = NoFrame
    /\ ret = NoResult
    /\ calls = 0
    /\ test_idx = 1
    /\ comp_idx = 1
    /\ i = 0
    /\ iteration_results = <<>>
    /\ result = NoResult
    /\ stats = NoLine
    /\ sample = [d \in Durations |-> 0]
    /\ failures = 0
    /\ ranking = <<>>
    /\ host = AnyHost
    /\ detected = <<>>
    /\ test_programs = create_test_programs
    /\ std_devs = <<>>
    /\ parked = <<>>
    /\ honest = NoHonest

NextTiming ==
    \/ benchmark_ea_compiler
    \/ benchmark_rust_compiler
    \/ benchmark_cpp_compiler
    \/ benchmark_go_compiler
    \/ Spawn
    \/ Tick
    \/ ChildWrites
    \/ ChildExits
    \/ ChildHangs
    \/ GetSize
    \/ UnlinkArtifact
    \/ Finally
    \/ Work
    \/ SetBack

SpecTiming == InitTiming /\ [][NextTiming]_vars

(***************************************************************************)
(* Two threads of one process, each making single-trial calls on the same  *)
(* PerformanceValidator, on a host with every toolchain available.  The    *)
(* variables pc, exc, frame, ret, calls and proc are those of the thread   *)
(* that is running; parked holds them for the other thread.  A switch can  *)
(* happen between any two steps.  The disk and the clock are shared.       *)
(***************************************************************************)
Context(at, raised, locals, returned, count, child) ==
    [pc |-> at, exc |-> raised, frame |-> locals, ret |-> returned,
     calls |-> count, proc |-> child]

Switch ==
    /\ \E k \in DOMAIN parked :
         /\ pc' = parked[k].pc
         /\ exc' = parked[k].exc
         /\ frame' = parked[k].frame
         /\ ret' = parked[k].ret
         /\ calls' = parked[k].calls
         /\ proc' = parked[k].proc
         /\ parked' = [parked EXCEPT ![k] = Context(pc, exc, frame, ret, calls, proc)]
    /\ UNCHANGED <<fs, clock>>
    /\ UNCHANGED <<compilers, results, test_idx, comp_idx, i, iteration_results,
                   result, stats, sample, failures, ranking, host, detected,
                   test_programs, std_devs, honest>>

InitThreads ==
    /\ pc = "idle"
    /\ exc = "none"
    /\ compilers = Registry(KeySet)
    /\ results = <<>>
    /\ proc = NoProc
    /\ fs = {}
    /\ clock = 0
    /\ frame = NoFrame
    /\ ret = NoResult
    /\ calls = 0
    /\ test_idx = 1
    /\ comp_idx = 1
    /\ i = 0
    /\ iteration_results = <<>>
    /\ result = NoResult
    /\ stats = NoLine
    /\ sample = [d \in Durations |-> 0]
    /\ failures = 0
    /\ ranking = <<>>
    /\ host = AnyHost
    /\ detected = <<>>
    /\ test_programs = create_test_programs
    /\ std_devs = <<>>
    /\ parked = <<Context("idle", "none", NoFrame, NoResult, 0, NoProc)>>
    /\ honest = NoHonest

NextThreads ==
    \/ benchmark_ea_compiler
    \/ benchmark_rust_compiler
    \/ benchmark_cpp_compiler
    \/ benchmark_go_compiler
    \/ Spawn
    \/ Tick
    \/ ChildWrites
    \/ ChildExits
    \/ ChildHangs
    \/ GetSize
    \/ UnlinkArtifact
    \/ Finally
    \/ Switch

SpecThreads == InitThreads /\ [][NextThreads]_vars

(***************************************************************************)
(* statistics.median and statistics.stdev, as run_comprehensive_benchmarks *)
(* calls them.                                                             *)
(***************************************************************************)
RECURSIVE Insert(_, _)
Insert(sorted_data, x) ==
    IF sorted_data = <<>> THEN <<x>>
    ELSE IF x < Head(sorted_data) THEN <<x>> \o sorted_data
    ELSE <<Head(sorted_data)>> \o Insert(Tail(sorted_data), x)

RECURSIVE sorted(_)
sorted(data) ==
    IF data = <<>> THEN <<>>
    ELSE Insert(sorted(SubSeq(data, 1, Len(data) - 1)), data[Len(data)])

\* data = sorted(data); n = len(data); the middle value, or the mean of the
\* two middle values (indices are Python's, 0-based, plus one)
median(data) ==
    LET s == sorted(data)
        n == Len(s)
    IN IF n % 2 = 1 THEN s[(n \div 2) + 1]
       ELSE (s[n \div 2] + s[(n \div 2) + 1]) \div 2

RECURSIVE Sum(_)
Sum(data) == IF data = <<>> THEN 0 ELSE Head(data) + Sum(Tail(data))

Squares(data) == [k \in DOMAIN data |-> data[k] * data[k]]

\* statistics.stdev(data): the square root of the sample variance
\* sum((x - mean)^2) / (n - 1) = (n * sum(x^2) - sum(x)^2) / (n * (n - 1)),
\* kept as that fraction.
stdev(data) ==
    LET n == Len(data) IN
    Fraction(n * Sum(Squares(data)) - Sum(data) * Sum(data), n * (n - 1))

std_dev_above_two(data) == IF Len(data) > 2 THEN stdev(data) ELSE Fraction(0, 1)

\* `statistics.stdev(iteration_results) if len(iteration_results) > 1 else 0`
std_dev_of(data) == IF Len(data) > 1 THEN stdev(data) ELSE Fraction(0, 1)

(***************************************************************************)
(* run_comprehensive_benchmarks.  A single-trial call is one step here:    *)
(* it returns a BenchmarkResult and leaves the disk as it found it         *)
(* (SpecTrial), raises what subprocess.run raised, or never returns.       *)
(***************************************************************************)
one_iteration_short == 5 - 1

iterations == 5

BuildOutcomes ==
    {[kind |-> "missing"], [kind |-> "noexec"], [kind |-> "hang"]}
    \cup {[kind |-> "exit", returncode |-> rc, ticks |-> d, artifact |-> a] :
            rc \in {0, 1}, d \in 1..MaxDuration, a \in {None} \cup 1..MaxSize}

test_name == test_programs[test_idx].test_name

programs == test_programs[test_idx].programs

compiler == programs[comp_idx]

SuiteFrame_redetecting ==
    /\ compilers' \in {[compilers EXCEPT ![key].available = FALSE] : key \in KeySet}
    /\ UNCHANGED <<fs, clock, frame, ret, calls, host, detected,
                   test_programs, std_devs, parked, honest>>

\* What run_comprehensive_benchmarks and generate_performance_report leave
\* alone: self.compilers is read (l.387, 430), never assigned.
SuiteFrame ==
    UNCHANGED <<compilers, fs, clock, frame, ret, calls, host, detected,
                test_programs, std_devs, parked, honest>>

\* test_programs = self.create_test_programs() (held in test_programs from
\* the start), and the loops begin
run_comprehensive_benchmarks ==
    /\ pc = "constructed"
    /\ pc' = "pair"
    /\ test_idx' = 1
    /\ comp_idx' = 1
    /\ UNCHANGED <<exc, results, proc, i, iteration_results, result, sample, failures, ranking>>
    /\ stats' = NoLine
    /\ SuiteFrame

\* `if not self.compilers[compiler].available: continue`
Continue ==
    /\ pc = "pair"
    /\ test_idx <= Len(test_programs)
    /\ comp_idx <= Len(programs)
    /\ compiler \in DOMAIN compilers
    /\ ~is_available(compiler)
    /\ comp_idx' = comp_idx + 1
    /\ UNCHANGED <<pc, exc, results, proc, test_idx, i, iteration_results, result,
                   sample, failures, ranking>>
    /\ stats' = NoLine
    /\ SuiteFrame

\* iteration_results = [], and `for i in range(iterations)` begins
StartPair ==
    /\ pc = "pair"
    /\ test_idx <= Len(test_programs)
    /\ comp_idx <= Len(programs)
    /\ compiler \in DOMAIN compilers
    /\ is_available(compiler)
    /\ iteration_results' = <<>>
    /\ i' = 0
    /\ sample' = [d \in Durations |-> 0]
    /\ failures' = 0
    /\ pc' = "trials"
    /\ UNCHANGED <<exc, results, proc, test_idx, comp_idx, result, ranking>>
    /\ stats' = NoLine
    /\ SuiteFrame

\* the programs of the test are exhausted: the next test
NextTest ==
    /\ pc = "pair"
    /\ test_idx <= Len(test_programs)
    /\ comp_idx > Len(programs)
    /\ test_idx' = test_idx + 1
    /\ comp_idx' = 1
    /\ UNCHANGED <<pc, exc, results, proc, i, iteration_results, result, sample, failures, ranking>>
    /\ stats' = NoLine
    /\ SuiteFrame

\* the tests are exhausted: run_comprehensive_benchmarks returns
Return ==
    /\ pc = "pair"
    /\ test_idx > Len(test_programs)
    /\ pc' = "ran"
    /\ UNCHANGED <<exc, results, proc, test_idx, comp_idx, i, iteration_results,
                   result, sample, failures, ranking>>
    /\ stats' = NoLine
    /\ SuiteFrame

\* What a single-trial call of an available toolchain returns when its build
\* exits: the time from spawn to exit, success = (returncode == 0), and the
\* size of the artifact when the build left one.
benchmark(c, t, o) ==
    BenchmarkResult(c, t, o.ticks * 1000, None, o.returncode = 0, o.artifact)

\* `if result.success: iteration_results.append(result.compilation_time_ms)`
collect(data, r) ==
    IF r.success THEN Append(data, r.compilation_time_ms) ELSE data

\* One pass of the trial loop: result = self.benchmark_*_compiler(...), then
\* the `if result.success` append.
Trial ==
    /\ pc = "trials"
    /\ i < iterations
    /\ \E o \in BuildOutcomes :
         LET how == subprocess_run(NoTimeout, o) IN
         CASE how = "completed" ->
                LET r == benchmark(compiler, test_name, o) IN
                /\ result' = r
                /\ iteration_results' = collect(iteration_results, r)
                /\ i' = i + 1
                /\ proc' = Process(Command(compiler), NoTimeout, FALSE,
                                   o.returncode, <<>>)
                /\ sample' = IF o.returncode = 0
                             THEN [sample EXCEPT ![o.ticks * 1000] = @ + 1]
                             ELSE sample
                /\ failures' = IF o.returncode = 0 THEN failures ELSE failures + 1
                /\ UNCHANGED <<pc, exc>>
           [] how = "blocks" ->
                /\ pc' = "blocked"
                /\ proc' = Process(Command(compiler), NoTimeout, TRUE, None, <<>>)
                /\ UNCHANGED <<exc, result, iteration_results, i, sample, failures>>
           [] OTHER ->
                /\ pc' = "raised"
                /\ exc' = how
                /\ UNCHANGED <<proc, result, iteration_results, i, sample, failures>>
    /\ UNCHANGED <<results, test_idx, comp_idx, ranking>>
    /\ stats' = NoLine
    /\ SuiteFrame

\* obj.name on a dataclass instance: the field of that name, or
\* AttributeError when the instance has no such attribute.
getattr(obj, name) ==
    IF name \in DOMAIN obj
    THEN [exc |-> "none", value |-> obj[name]]
    ELSE [exc |-> "AttributeError", value |-> None]

final_result_of_last_trial(c, t, data, last) ==
    [exc |-> "none",
     value |-> BenchmarkResult(c, t, last.compilation_time_ms, None,
                               last.success, last.output_size_bytes)]

\* final_result = BenchmarkResult(compiler, test_name, median_time, None,
\* True, result.output_size): the record of a pair with at least one
\* successful trial, when the attribute read of its last argument succeeds.
final_result(c, t, data, last) ==
    LET size == getattr(last, "output_size") IN
    [exc |-> size.exc,
     value |-> BenchmarkResult(c, t, median(data), None, TRUE, size.value)]

\* After the trial loop: `if iteration_results:` the statistics, then the
\* record, which is appended and its timing line printed unless building it
\* raised; else the FAILED line.  (mean_time is computed and never read.)
Aggregate ==
    /\ pc = "trials"
    /\ i = iterations
    /\ IF iteration_results # <<>>
       THEN LET made == final_result(compiler, test_name, iteration_results, result) IN
            /\ stats' = Line(compiler, test_name, FALSE,
                             median(iteration_results),
                             std_dev_of(iteration_results))
            /\ IF made.exc = "none"
               THEN /\ results' = Append(results, made.value)
                    /\ comp_idx' = comp_idx + 1
                    /\ pc' = "pair"
                    /\ exc' = exc
               ELSE /\ pc' = "raised"
                    /\ exc' = made.exc
                    /\ UNCHANGED <<results, comp_idx>>
       ELSE /\ results' = results
            /\ stats' = Line(compiler, test_name, TRUE, 0, Fraction(0, 1))
            /\ comp_idx' = comp_idx + 1
            /\ pc' = "pair"
            /\ exc' = exc
    /\ UNCHANGED <<proc, test_idx, i, iteration_results, result, sample,
                   failures, ranking>>
    /\ SuiteFrame

(***************************************************************************)
(* The trial loop of one pair with each single-trial call it makes run     *)
(* statement by statement (in Spec a whole call is the one step Trial).    *)
(***************************************************************************)
\* result = self.benchmark_<compiler>_compiler(program, test_name): the call
CallTrial ==
    /\ pc = "trials"
    /\ i < iterations
    /\ calls' = calls
    /\ Call(compiler, test_name)

\* the call has returned: `if result.success:` the append, and the next pass
CollectTrial ==
    /\ pc = "returned"
    /\ result' = ret
    /\ iteration_results' = collect(iteration_results, ret)
    /\ i' = i + 1
    /\ sample' = IF ret.success
                 THEN [sample EXCEPT ![ret.compilation_time_ms] = @ + 1]
                 ELSE sample
    /\ failures' = IF ret.success THEN failures ELSE failures + 1
    /\ pc' = "trials"
    /\ UNCHANGED <<exc, compilers, results, proc, fs, clock, frame, ret, calls,
                   test_idx, comp_idx, stats, ranking, host, detected,
                   test_programs, std_devs, parked, honest>>

\* The state in which the loop of a pair of the first test begins, on a
\* host where the toolchain of the pair is the one installed.
InitLoop ==
    /\ pc = "trials"
    /\ exc = "none"
    /\ comp_idx \in DOMAIN Keys
    /\ compilers = Registry({Keys[comp_idx]})
    /\ results = <<>>
    /\ proc = NoProc
    /\ fs = {}
    /\ clock = 0
    /\ frame = NoFrame
    /\ ret = NoResult
    /\ calls = 0
    /\ test_idx = 1
    /\ i = 0
    /\ iteration_results = <<>>
    /\ result = NoResult
    /\ stats = NoLine
    /\ sample = [d \in Durations |-> 0]
    /\ failures = 0
    /\ ranking = <<>>
    /\ host = AnyHost
    /\ detected = <<>>
    /\ test_programs = create_test_programs
    /\ std_devs = <<>>
    /\ parked = <<>>
    /\ honest = NoHonest

NextLoop ==
    \/ CallTrial
    \/ Spawn
    \/ Tick
    \/ ChildWrites
    \/ ChildExits
    \/ ChildHangs
    \/ GetSize
    \/ UnlinkArtifact
    \/ Finally
    \/ CollectTrial
    \/ Aggregate

SpecLoop == InitLoop /\ [][NextLoop]_vars

(***************************************************************************)
(* generate_performance_report: the grouping of self.results by test, the  *)
(* sort of each group, and the places where the function can raise.        *)
(***************************************************************************)
RECURSIVE InsertByTime(_, _)
InsertByTime(rs, r) ==
    IF rs = <<>> THEN <<r>>
    ELSE IF r.compilation_time_ms < Head(rs).compilation_time_ms
         THEN <<r>> \o rs
         ELSE <<Head(rs)>> \o InsertByTime(Tail(rs), r)

\* results.sort(key=lambda r: r.compilation_time_ms): ascending and stable
RECURSIVE sort_by_time(_)
sort_by_time(rs) ==
    IF rs = <<>> THEN <<>>
    ELSE InsertByTime(sort_by_time(SubSeq(rs, 1, Len(rs) - 1)), rs[Len(rs)])

RECURSIVE Select(_, _)
Select(rs, t) ==
    IF rs = <<>> THEN <<>>
    ELSE IF Head(rs).test_name = t THEN <<Head(rs)>> \o Select(Tail(rs), t)
         ELSE Select(Tail(rs), t)

\* test_groups, each group sorted: test -> the records of the test by time
test_groups(rs) ==
    [t \in {rs[k].test_name : k \in DOMAIN rs} |-> sort_by_time(Select(rs, t))]

\* `result.compilation_time_ms / fastest_time` divides by the fastest time.
ZeroDivision(rs) ==
    \E t \in DOMAIN test_groups(rs) : test_groups(rs)[t][1].compilation_time_ms = 0

\* statistics.mean([... for ea_r in ea_results if any(competitor on the test)])
\* is given an empty list when ea has records and no test of them has a
\* record of another compiler.
MeanOfNothing(rs) ==
    /\ \E k \in DOMAIN rs : rs[k].compiler = "ea"
    /\ \A k \in DOMAIN rs :
         rs[k].compiler = "ea" =>
           ~\E j \in DOMAIN rs : /\ rs[j].test_name = rs[k].test_name
                                 /\ rs[j].compiler # "ea"

generate_performance_report ==
    /\ pc = "ran"
    /\ ranking' = test_groups(results)
    /\ IF ZeroDivision(results)
       THEN pc' = "raised" /\ exc' = "ZeroDivisionError"
       ELSE IF MeanOfNothing(results)
            THEN pc' = "raised" /\ exc' = "StatisticsError"
            ELSE pc' = "reported" /\ exc' = exc
    /\ UNCHANGED <<results, proc, test_idx, comp_idx, i, iteration_results,
                   result, sample, failures>>
    /\ stats' = NoLine
    /\ SuiteFrame

\* save_results(filename), as main calls it after the report: the registry
\* and the records are dumped to the file, whose size stands for its number
\* of records.  (Name 0 is a name tempfile does not draw.)
save_results ==
    /\ pc = "reported"
    /\ fs' = fs \cup {[path |-> Path(0, ".json"), size |-> Len(results)]}
    /\ pc' = "saved"
    /\ stats' = NoLine
    /\ UNCHANGED <<exc, compilers, results, proc, clock, frame, ret, calls,
                   test_idx, comp_idx, i, iteration_results, result, sample,
                   failures, ranking, host, detected, test_programs, std_devs,
                   parked, honest>>

\* The hosts Spec starts from, by their set of working toolchains: none, or
\* any single one.  (The trials of one pair do not read the other pairs; the
\* report over the records of several toolchains is SpecReport's.)
Hosts == {{}} \cup {{key} : key \in KeySet}

\* The state after PerformanceValidator() on such a host.
Init ==
    /\ pc = "constructed"
    /\ exc = "none"
    /\ compilers \in {Registry(available) : available \in Hosts}
    /\ results = <<>>
    /\ proc = NoProc
    /\ fs = {}
    /\ clock = 0
    /\ frame = NoFrame
    /\ ret = NoResult
    /\ calls = 0
    /\ test_idx = 1
    /\ comp_idx = 1
    /\ i = 0
    /\ iteration_results = <<>>
    /\ result = NoResult
    /\ stats = NoLine
    /\ sample = [d \in Durations |-> 0]
    /\ failures = 0
    /\ ranking = <<>>
    /\ host = AnyHost
    /\ detected = <<>>
    /\ test_programs = create_test_programs
    /\ std_devs = <<>>
    /\ parked = <<>>
    /\ honest = NoHonest

Next ==
    \/ run_comprehensive_benchmarks
    \/ Continue
    \/ StartPair
    \/ NextTest
    \/ Return
    \/ Trial
    \/ Aggregate
    \/ generate_performance_report
    \/ save_results

Spec == Init /\ [][Next]_vars

(***************************************************************************)
(* run_comprehensive_benchmarks over another corpus: create_test_programs  *)
(* overridden, or its literal edited, so that the first test lacks the     *)
(* programs of some toolchains or has a program under a key                *)
(* detect_compilers does not know.                                         *)
(***************************************************************************)
Unknown == "zig"

\* the programs of a test: all four, all but one, or all and one more
Without(key) ==
    LET Kept(k) == k # key IN SelectSeq(Keys, Kept)

InsertAt(k) == SubSeq(Keys, 1, k) \o <<Unknown>> \o SubSeq(Keys, k + 1, Len(Keys))

ProgramLists ==
    {Keys} \cup {Without(key) : key \in KeySet}
           \cup {InsertAt(k) : k \in 0..Len(Keys)}

Corpora ==
    {<< [test_name |-> "fibonacci", programs |-> p],
        [test_name |-> "sorting", programs |-> Keys] >> : p \in ProgramLists}

\* `self.compilers[compiler]` for a key that is not in the dict: KeyError
KeyError ==
    /\ pc = "pair"
    /\ test_idx <= Len(test_programs)
    /\ comp_idx <= Len(programs)
    /\ compiler \notin DOMAIN compilers
    /\ pc' = "raised"
    /\ exc' = "KeyError"
    /\ UNCHANGED <<results, proc, test_idx, comp_idx, i, iteration_results,
                   result, sample, failures, ranking>>
    /\ stats' = NoLine
    /\ SuiteFrame

InitCorpus ==
    /\ pc = "constructed"
    /\ exc = "none"
    /\ compilers \in {Registry(available) : available \in Hosts}
    /\ results = <<>>
    /\ proc = NoProc
    /\ fs = {}
    /\ clock = 0
    /\ frame = NoFrame
    /\ ret = NoResult
    /\ calls = 0
    /\ test_idx = 1
    /\ comp_idx = 1
    /\ i = 0
    /\ iteration_results = <<>>
    /\ result = NoResult
    /\ stats = NoLine
    /\ sample = [d \in Durations |-> 0]
    /\ failures = 0
    /\ ranking = <<>>
    /\ host = AnyHost
    /\ detected = <<>>
    /\ test_programs \in Corpora
    /\ std_devs = <<>>
    /\ parked = <<>>
    /\ honest = NoHonest

NextCorpus ==
    \/ run_comprehensive_benchmarks
    \/ Continue
    \/ StartPair
    \/ NextTest
    \/ Return
    \/ Trial
    \/ Aggregate
    \/ KeyError
    \/ generate_performance_report

SpecCorpus == InitCorpus /\ [][NextCorpus]_vars

(***************************************************************************)
(* generate_performance_report as a function of self.results: the report  *)
(* applied to a list of one record, or of the records of two toolchains a  *)
(* and b, a before b in the corpus, on the last test.  The time of each    *)
(* record is the median of a sample of successful trials, sa and sb, and   *)
(* std_devs keeps the std_dev of the sample beside each record.            *)
(***************************************************************************)
\* the durations of the successful trials of a pair, in ascending order
Samples ==
    UNION {{data \in [1..n -> Durations] :
                \A j \in 1..(n - 1) : data[j] <= data[j + 1]} : n \in 1..iterations}

Count(data, d) == Cardinality({j \in DOMAIN data : data[j] = d})

LastTest == test_programs[Len(test_programs)].test_name

InitReport ==
    \E a \in DOMAIN Keys, b \in DOMAIN Keys, sa \in Samples, sb \in Samples :
        /\ a <= b
        /\ a = b => sa = sb
        /\ test_programs = create_test_programs
        /\ compilers = Registry({Keys[a], Keys[b]})
        /\ results = IF a = b
                     THEN << BenchmarkResult(Keys[a], LastTest, median(sa), None, TRUE, None) >>
                     ELSE << BenchmarkResult(Keys[a], LastTest, median(sa), None, TRUE, None),
                             BenchmarkResult(Keys[b], LastTest, median(sb), None, TRUE, None) >>
        /\ std_devs = IF a = b THEN <<std_dev_of(sa)>>
                      ELSE <<std_dev_of(sa), std_dev_of(sb)>>
        /\ iteration_results = sb
        /\ sample = [d \in Durations |-> Count(sb, d)]
        /\ failures = iterations - Len(sb)
        /\ result = BenchmarkResult(Keys[b], LastTest, sb[Len(sb)], None, TRUE, None)
        /\ proc = Process(Command(Keys[b]), NoTimeout, FALSE, 0, <<>>)
        /\ pc = "ran"
        /\ exc = "none"
        /\ fs = {}
        /\ clock = 0
        /\ frame = NoFrame
        /\ ret = NoResult
        /\ calls = 0
        /\ test_idx = Len(test_programs) + 1
        /\ comp_idx = 1
        /\ i = iterations
        /\ stats = NoLine
        /\ ranking = <<>>
        /\ host = AnyHost
        /\ detected = <<>>
        /\ parked = <<>>
        /\ honest = NoHonest

NextReport == generate_performance_report

SpecReport == InitReport /\ [][NextReport]_vars

(***************************************************************************)
(* scripts/run_honest_benchmarks.py.  A time string such as '123.45 µs'    *)
(* is its number and its unit; the number is 0..MaxValue, or Malformed for *)
(* a run of digits and dots that is no number ('1.2.3').  A line of text   *)
(* is the words before its bracket and the time strings inside the bracket *)
(* (none when the line has no bracket); '/' and ':' are written as words   *)
(* of their own.  A float is an exact fraction, and None where a float is  *)
(* expected is NoNumber.                                                   *)
(***************************************************************************)
Malformed == -1

TimeStr(value, unit) == [value |-> value, unit |-> unit]

TextLine(words, values) == [words |-> words, values |-> values]

NoNumber == [num |-> 0, den |-> 0]

\* `word in line`
contains(line, word) == \E k \in DOMAIN line.words : line.words[k] = word

\* the position of the first occurrence of a word in a sequence that has it
find(words, word) ==
    CHOOSE k \in DOMAIN words :
        words[k] = word /\ \A j \in 1..(k - 1) : words[j] # word

\* str.split(sep)[0]: what precedes the first sep, or all when there is none
before(words, sep) ==
    IF \E k \in DOMAIN words : words[k] = sep
    THEN SubSeq(words, 1, find(words, sep) - 1)
    ELSE words

RECURSIVE join(_)
join(words) == IF words = <<>> THEN "" ELSE Head(words) \o join(Tail(words))

\* line.split("Benchmarking ")[1].split("/")[0] if "/" in line else
\* line.split("Benchmarking ")[1].split(":")[0]; the index 1 does not exist
\* when nothing follows the word.
group_of(line) ==
    LET at == find(line.words, "Benchmarking")
        rest == SubSeq(line.words, at + 1, Len(line.words))
    IN IF rest = <<>> /\ line.values = <<>>
       THEN [exc |-> "IndexError", group |-> ""]
       ELSE [exc |-> "none",
             group |-> join(before(rest, IF contains(line, "/") THEN "/" ELSE ":"))]

\* parts[i-1] for the first part that holds "time:", None (here "") when it
\* is the first part
benchmark_name_of(line) ==
    LET at == find(line.words, "time:") IN
    IF at > 1 THEN line.words[at - 1] ELSE ""

\* re.search(r'\[([\d.]+\s*[µmn]?s)\s+(...)\s+(...)\]', line): three time
\* strings in the bracket, each with one of the units s, µs, ms, ns
time_match(line) ==
    /\ Len(line.values) = 3
    /\ \A k \in 1..3 : line.values[k].unit \in {"s", "µs", "ms", "ns"}

first_group(values) == values[1]

\* time_match.group(2).strip()
second_group(values) == values[2]

\* results[g][n] = t, in a dict that has the key g
Store(res, g, n, t) ==
    [k \in DOMAIN res |->
        IF k = g
        THEN [m \in DOMAIN res[g] \cup {n} |-> IF m = n THEN t ELSE res[g][m]]
        ELSE res[k]]

\* `if current_group not in results: results[current_group] = {}`
AddGroup(res, g) ==
    IF g \in DOMAIN res THEN res
    ELSE [k \in DOMAIN res \cup {g} |-> IF k = g THEN <<>> ELSE res[k]]

\* The body of `for line in lines` from the k-th line on, with current_group
\* (None is "": both fail the test of l.79) and the results so far.
RECURSIVE scan(_, _, _, _)
scan(lines, k, current_group, res) ==
    IF k > Len(lines) THEN [exc |-> "none", results |-> res]
    ELSE
    LET line == lines[k]
        detected_group == IF contains(line, "Benchmarking") THEN group_of(line)
                          ELSE [exc |-> "none", group |-> current_group]
        group == detected_group.group
        grouped == IF contains(line, "Benchmarking") THEN AddGroup(res, group)
                   ELSE res
        timing == /\ contains(line, "time:")
                  /\ line.values # <<>>
                  /\ Len(line.words) + 2 * Len(line.values) >= 3
                  /\ benchmark_name_of(line) # ""
                  /\ group # ""
                  /\ time_match(line)
    IN IF detected_group.exc # "none"
       THEN [exc |-> detected_group.exc, results |-> res]
       ELSE scan(lines, k + 1, group,
                 IF timing
                 THEN Store(grouped, group, benchmark_name_of(line),
                            second_group(line.values))
                 ELSE grouped)

\* parse_benchmark_results(output): results = {}, current_group = None, the
\* loop over output.split('\n'), and `return results`
parse_benchmark_results(lines) == scan(lines, 1, "", <<>>)

\* float(text) of the number of a time string
float(value) ==
    IF value = Malformed
    THEN [exc |-> "ValueError", value |-> NoNumber]
    ELSE [exc |-> "none", value |-> Fraction(value, 1)]

\* convert_to_microseconds(time_str): the unit tests in their order; only
\* the last branch, of a string without unit, catches what float raises.
\* (A unit that merely ends in s, like ps, passes the test for s, and float
\* is given the number with the rest of the unit.)
convert_to_microseconds(time_str) ==
    LET x == float(time_str.value) IN
    CASE time_str.unit = "ns" ->
            [exc |-> x.exc, value |-> Fraction(x.value.num, x.value.den * 1000)]
      [] time_str.unit \in {"µs", "us"} -> x
      [] time_str.unit = "ms" ->
            [exc |-> x.exc, value |-> Fraction(x.value.num * 1000, x.value.den)]
      [] time_str.unit = "s" ->
            [exc |-> x.exc, value |-> Fraction(x.value.num * 1000000, x.value.den)]
      [] time_str.unit = "ps" -> [exc |-> "ValueError", value |-> NoNumber]
      [] OTHER -> [exc |-> "none", value |-> float(time_str.value).value]

is_not_none(x) == x.den # 0

\* `if x`, for x a float or None
truthy(x) == x.den # 0 /\ x.num # 0

\* a / b of Python: the quotient is kept as its two operands
divide(a, b) ==
    IF b.num = 0
    THEN [exc |-> "ZeroDivisionError", value |-> NoNumber]
    ELSE [exc |-> "none", value |-> [dividend |-> a, divisor |-> b]]

\* The two comparisons of analyze_results: the group it reads, the key it
\* writes, the baseline, and the competitors by name and label.
Comparisons ==
    << [group |-> "frontend_only_fair_comparison", key |-> "frontend_only",
        ea |-> "ea_frontend",
        competitors |-> << [name |-> "rustc_frontend", label |-> "rust"],
                           [name |-> "clang_frontend", label |-> "clang"],
                           [name |-> "go_frontend", label |-> "go"] >>],
       [group |-> "full_pipeline_fair_comparison", key |-> "full_pipeline",
        ea |-> "ea_full_pipeline",
        competitors |-> << [name |-> "rustc_full_pipeline", label |-> "rust"],
                           [name |-> "gcc_full_pipeline", label |-> "gcc"],
                           [name |-> "go_full_pipeline", label |-> "go"] >>] >>

SpeedupKey(c) == "ea_vs_" \o c.label \o "_speedup"

PercentKey(c) == "ea_vs_" \o c.label \o "_percent"

TimeKey(name) == name \o "_us"

\* d[key] = value for a dict d
SetItem(d, key, value) ==
    [k \in DOMAIN d \cup {key} |-> IF k = key THEN value ELSE d[k]]

\* One `if "<name>" in group and ea_time:` block, for the competitor c of
\* the dict group; entries is the analysis of the comparison so far.
compare(group, c, ea_time, entries) ==
    IF ~(c.name \in DOMAIN group /\ truthy(ea_time))
    THEN [exc |-> "none", entries |-> entries]
    ELSE LET time == convert_to_microseconds(group[c.name]) IN
         IF time.exc # "none" THEN [exc |-> time.exc, entries |-> entries]
         ELSE IF ~truthy(time.value) THEN [exc |-> "none", entries |-> entries]
         ELSE LET speedup == divide(time.value, ea_time)
                  difference == Fraction(time.value.num * ea_time.den - ea_time.num * time.value.den,
                                         time.value.den * ea_time.den)
                  percent == divide(difference, time.value)
              IN IF speedup.exc # "none"
                 THEN [exc |-> speedup.exc,
                       entries |-> SetItem(entries, TimeKey(c.name), time.value)]
                 ELSE IF percent.exc # "none"
                 THEN [exc |-> percent.exc,
                       entries |-> SetItem(SetItem(entries, TimeKey(c.name), time.value),
                                           SpeedupKey(c), speedup.value)]
                 ELSE [exc |-> "none",
                       entries |->
                          SetItem(SetItem(SetItem(entries, TimeKey(c.name), time.value),
                                          SpeedupKey(c), speedup.value),
                                  PercentKey(c), [percent.value EXCEPT !.dividend =
                                                    [@ EXCEPT !.num = @ * 100]])]

\* the competitor blocks of a comparison from the k-th on
RECURSIVE compare_from(_, _, _, _, _)
compare_from(group, competitors, k, ea_time, entries) ==
    IF k > Len(competitors) THEN [exc |-> "none", entries |-> entries]
    ELSE LET done == compare(group, competitors[k], ea_time, entries) IN
         IF done.exc # "none" THEN done
         ELSE compare_from(group, competitors, k + 1, ea_time, done.entries)

\* One `if "<group>" in results:` block: the baseline, then the competitors.
compare_group(group, cmp) ==
    IF cmp.ea \in DOMAIN group
    THEN LET ea == convert_to_microseconds(group[cmp.ea]) IN
         IF ea.exc # "none" THEN [exc |-> ea.exc, entries |-> <<>>]
         ELSE compare_from(group, cmp.competitors, 1, ea.value,
                           SetItem(<<>>, TimeKey(cmp.ea), ea.value))
    ELSE compare_from(group, cmp.competitors, 1, NoNumber, <<>>)

\* the blocks of analyze_results from the k-th on; comparisons is
\* analysis["comparisons"] so far
RECURSIVE analyze_from(_, _, _)
analyze_from(res, k, comparisons) ==
    IF k > Len(Comparisons) THEN [exc |-> "none", comparisons |-> comparisons]
    ELSE LET cmp == Comparisons[k] IN
         IF cmp.group \notin DOMAIN res
         THEN analyze_from(res, k + 1, comparisons)
         ELSE LET done == compare_group(res[cmp.group], cmp) IN
              IF done.exc # "none"
              THEN [exc |-> done.exc, comparisons |-> comparisons]
              ELSE analyze_from(res, k + 1,
                                SetItem(comparisons, cmp.key, done.entries))

analyze_results(res) == analyze_from(res, 1, <<>>)

\* generate_honest_report(analysis) formats the baseline of each comparison
\* with `:.2f`, which raises TypeError when the baseline is None.
generate_honest_report(comparisons) ==
    IF \E k \in DOMAIN Comparisons :
          /\ Comparisons[k].key \in DOMAIN comparisons
          /\ TimeKey(Comparisons[k].ea) \in DOMAIN comparisons[Comparisons[k].key]
          /\ comparisons[Comparisons[k].key][TimeKey(Comparisons[k].ea)] = NoNumber
    THEN "TypeError"
    ELSE "none"

\* The lines the benchmark command is taken to print: lines that name a
\* group in either form, timing lines with a name (of well-formed and of
\* malformed number, and of a unit the pattern does not know), a timing
\* line without a name, a line that is both, the bare word, and other text.
Spread(value, unit) ==
    << TimeStr(IF value > 0 THEN value - 1 ELSE value, unit),
       TimeStr(value, unit),
       TimeStr(IF value = Malformed THEN value ELSE value + 1, unit) >>

GroupNames == {"frontend_only_fair_comparison", "full_pipeline_fair_comparison"}

BenchmarkNames == {"ea_frontend", "rustc_frontend"}

TextLines ==
    {TextLine(<<"Benchmarking", g, "/", "ea_frontend">>, <<>>) : g \in GroupNames}
    \cup {TextLine(<<"Benchmarking", "frontend_only_fair_comparison", ":", "Warming">>, <<>>)}
    \cup {TextLine(<<n, "time:">>, Spread(v, "µs")) :
            n \in BenchmarkNames, v \in 0..MaxValue}
    \cup {TextLine(<<"ea_frontend", "time:">>, Spread(Malformed, "µs")),
          TextLine(<<"ea_frontend", "time:">>, Spread(1, "ps")),
          TextLine(<<"time:">>, Spread(1, "µs")),
          TextLine(<<"Benchmarking", "full_pipeline_fair_comparison", ":",
                     "rustc_frontend", "time:">>, Spread(1, "µs")),
          TextLine(<<"Benchmarking">>, <<>>),
          TextLine(<<"Found", "outliers">>, <<>>)}

\* What the benchmark command can do: as a probe, with the text it prints.
BenchmarkOutcomes ==
    {[kind |-> "missing"], [kind |-> "noexec"], [kind |-> "hang"]}
    \cup {[kind |-> "exit", returncode |-> rc, stdout |-> text] :
            rc \in {0, 1},
            text \in UNION {[1..n -> TextLines] : n \in 0..MaxOutput}}

returned_stdout(returncode, stdout) == Output(stdout)

\* `if result.returncode != 0: return None`, else `return result.stdout`
returned(returncode, stdout) ==
    IF returncode # 0 THEN NoOutput ELSE Output(stdout)

\* `not output`, for None and for the empty string
falsy(output) == output.none \/ output.lines = <<>>

HonestFrame ==
    UNCHANGED <<compilers, results, clock, frame, ret, calls, test_idx,
                comp_idx, i, iteration_results, result, stats, sample,
                failures, ranking, host, detected, test_programs, std_devs,
                parked>>

\* output = run_benchmark(), whose except clauses turn the timeout and every
\* other exception of subprocess.run into None, and `if not output: return`
run_benchmark ==
    /\ pc = "main"
    /\ \E o \in BenchmarkOutcomes :
         LET how == subprocess_run(600, o)
             output == IF how = "completed" THEN returned(o.returncode, o.stdout)
                       ELSE NoOutput
         IN /\ proc' = CASE how = "completed" ->
                              Process("cargo bench", 600, FALSE, o.returncode, o.stdout)
                         [] how = "TimeoutExpired" ->
                              Process("cargo bench", 600, FALSE, None, <<>>)
                         [] OTHER -> proc
            /\ honest' = [honest EXCEPT !.output = output]
            /\ pc' = IF falsy(output) THEN "done" ELSE "parse"
    /\ UNCHANGED <<exc, fs>>
    /\ HonestFrame

\* results = parse_benchmark_results(output), and `if not results: return`
parse ==
    /\ pc = "parse"
    /\ LET parsed == parse_benchmark_results(honest.output.lines) IN
       IF parsed.exc # "none"
       THEN /\ pc' = "raised"
            /\ exc' = parsed.exc
            /\ honest' = honest
       ELSE /\ honest' = [honest EXCEPT !.results = parsed.results]
            /\ pc' = IF DOMAIN parsed.results = {} THEN "done" ELSE "analyze"
            /\ exc' = exc
    /\ UNCHANGED <<proc, fs>>
    /\ HonestFrame

\* analysis = analyze_results(results)
analyze ==
    /\ pc = "analyze"
    /\ LET analysis == analyze_results(honest.results) IN
       IF analysis.exc # "none"
       THEN /\ pc' = "raised"
            /\ exc' = analysis.exc
            /\ honest' = honest
       ELSE /\ honest' = [honest EXCEPT !.comparisons = analysis.comparisons]
            /\ pc' = "report"
            /\ exc' = exc
    /\ UNCHANGED <<proc, fs>>
    /\ HonestFrame

\* report = generate_honest_report(analysis), then the two files
save ==
    /\ pc = "report"
    /\ LET raised == generate_honest_report(honest.comparisons) IN
       IF raised # "none"
       THEN /\ pc' = "raised"
            /\ exc' = raised
            /\ fs' = fs
       ELSE /\ fs' = fs \cup {[path |-> Path(0, "honest_benchmark_results.json"),
                              size |-> Cardinality(DOMAIN honest.comparisons)],
                             [path |-> Path(0, "HONEST_PERFORMANCE_REPORT.md"),
                              size |-> Cardinality(DOMAIN honest.comparisons)]}
            /\ pc' = "done"
            /\ exc' = exc
    /\ UNCHANGED <<proc, honest>>
    /\ HonestFrame

InitHonest ==
    /\ pc = "main"
    /\ exc = "none"
    /\ compilers = <<>>
    /\ results = <<>>
    /\ proc = NoProc
    /\ fs = {}
    /\ clock = 0
    /\ frame = NoFrame
    /\ ret = NoResult
    /\ calls = 0
    /\ test_idx = 1
    /\ comp_idx = 1
    /\ i = 0
    /\ iteration_results = <<>>
    /\ result = NoResult
    /\ stats = NoLine
    /\ sample = [d \in Durations |-> 0]
    /\ failures = 0
    /\ ranking = <<>>
    /\ host = AnyHost
    /\ detected = <<>>
    /\ test_programs = create_test_programs
    /\ std_devs = <<>>
    /\ parked = <<>>
    /\ honest = NoHonest

NextHonest == run_benchmark \/ parse \/ analyze \/ save

SpecHonest == InitHonest /\ [][NextHonest]_vars

(***************************************************************************)
(* analyze_results as a function of results: applied to a dict with one    *)
(* group, holding a baseline or none and one competitor or none, over      *)
(* every number and unit of their time strings.                            *)
(***************************************************************************)
TimeStrs ==
    {TimeStr(v, u) : v \in {Malformed} \cup 0..MaxValue,
                     u \in {"ns", "µs", "us", "ms", ""}}

InitAnalyze ==
    /\ pc = "analyze"
    /\ exc = "none"
    /\ compilers = <<>>
    /\ results = <<>>
    /\ proc = NoProc
    /\ fs = {}
    /\ clock = 0
    /\ frame = NoFrame
    /\ ret = NoResult
    /\ calls = 0
    /\ test_idx = 1
    /\ comp_idx = 1
    /\ i = 0
    /\ iteration_results = <<>>
    /\ result = NoResult
    /\ stats = NoLine
    /\ sample = [d \in Durations |-> 0]
    /\ failures = 0
    /\ ranking = <<>>
    /\ host = AnyHost
    /\ detected = <<>>
    /\ test_programs = create_test_programs
    /\ std_devs = <<>>
    /\ parked = <<>>
    /\ \E k \in DOMAIN Comparisons, c \in 1..3 :
         \E names \in SUBSET {Comparisons[k].ea, Comparisons[k].competitors[c].name} :
         \E group \in [names -> TimeStrs] :
            honest = [NoHonest EXCEPT
                        !.results = SetItem(<<>>, Comparisons[k].group, group)]

SpecAnalyze == InitAnalyze /\ [][analyze]_vars

(***************************************************************************)
(* The claims.                                                             *)
(***************************************************************************)

\* The successful trials of the pair being aggregated, read off the ghost
\* `sample`, which counts each successful duration as its trial returns.
SampleSize == Sum([k \in 1..MaxDuration |-> sample[k * 1000]])

AtMost(d) == Sum([k \in 1..MaxDuration |-> IF k * 1000 <= d THEN sample[k * 1000] ELSE 0])

\* the k-th smallest successful duration
OrderStatistic(k) ==
    CHOOSE d \in Durations : AtMost(d) >= k /\ AtMost(d) - sample[d] < k

SampleMedian ==
    (OrderStatistic((SampleSize + 1) \div 2) + OrderStatistic((SampleSize + 2) \div 2))
        \div 2

\* sum over the sample of (n * d - sum)^2, which is n^2 times the sum of the
\* squared deviations from the mean
SampleTotal == Sum([k \in 1..MaxDuration |-> k * 1000 * sample[k * 1000]])

ScaledDeviations ==
    Sum([k \in 1..MaxDuration |->
            sample[k * 1000] * (SampleSize * k * 1000 - SampleTotal)
                             * (SampleSize * k * 1000 - SampleTotal)])

\* the step just taken was the aggregation of a pair
Aggregated == stats # NoLine

\* C1: whenever a pair with at least one successful trial has been
\* aggregated, a record of the pair is stored whose duration is the median
\* of exactly the successful durations (the failed trials' durations are
\* not in the sample, in whatever order the trials succeeded and failed).
C1_MedianOfSuccessfulTrials ==
    (Aggregated /\ SampleSize >= 1) =>
        /\ ~stats.failed
        /\ results # <<>>
        /\ results[Len(results)].compiler = stats.compiler
        /\ results[Len(results)].test_name = stats.test_name
        /\ results[Len(results)].compilation_time_ms = SampleMedian
        /\ stats.median_time = SampleMedian

\* C2: a single-trial call for a toolchain the registry marks unavailable
\* starts no process, creates no file, and has returned success = False
\* with duration 0.
C2_UnavailableNeverSpawns ==
    (frame.compiler # "none" /\ ~compilers[frame.compiler].available) =>
        /\ pc = "returned"
        /\ ~frame.spawned
        /\ frame.temp_file = 0
        /\ fs = {}
        /\ ret = BenchmarkResult(frame.compiler, frame.test_name, 0, None, FALSE, None)

C2_Witness ==
    /\ pc = "returned"
    /\ frame.compiler = "go"
    /\ ~compilers["go"].available
    /\ ret.compiler = "go"
    /\ ~ret.success

C4_EveryInvocationBounded ==
    /\ proc.alive => proc.timeout # NoTimeout
    /\ pc # "blocked"

\* C5: a pair aggregated with no successful trial has a record in the
\* output, with no representative duration.
C5_AllFailedPairRecorded ==
    (Aggregated /\ SampleSize = 0) =>
        \E k \in DOMAIN results :
            /\ results[k].compiler = stats.compiler
            /\ results[k].test_name = stats.test_name
            /\ ~results[k].success
            /\ results[k].compilation_time_ms = None

HasRecord(c, t) ==
    \E k \in DOMAIN results : results[k].compiler = c /\ results[k].test_name = t

RankingOf(t) == IF t \in DOMAIN ranking THEN ranking[t] ELSE <<>>

\* C6: in the ranking of each test the durations ascend, and every pair
\* that was run and has no representative duration is listed after all the
\* pairs that have one.
C6_RankingTotalOrder ==
    pc = "reported" =>
        \A t \in TestNames :
            LET rk == RankingOf(t) IN
            /\ \A j, k \in DOMAIN rk :
                 (j < k /\ rk[j].compilation_time_ms # None
                        /\ rk[k].compilation_time_ms # None)
                    => rk[j].compilation_time_ms <= rk[k].compilation_time_ms
            /\ \A c \in KeySet :
                 (compilers[c].available /\ ~HasRecord(c, t)) =>
                    \E k \in DOMAIN rk :
                        /\ rk[k].compiler = c
                        /\ rk[k].compilation_time_ms = None
                        /\ \A j \in DOMAIN rk :
                             rk[j].compilation_time_ms # None => j < k

\* C7: when the pair just aggregated, of toolchain A, succeeded in all its
\* trials, the output holds a failed record on that test for every
\* unavailable toolchain B the loop has already passed.
C7_UnavailableSynthesized ==
    (Aggregated /\ ~stats.failed /\ SampleSize = iterations) =>
        \A k \in 1..(comp_idx - 1) :
            ~compilers[programs[k]].available =>
                \E j \in DOMAIN results :
                    /\ results[j].compiler = programs[k]
                    /\ results[j].test_name = test_name
                    /\ ~results[j].success

\* C8: the dispersion computed for a pair is exactly 0 when fewer than two
\* trials succeeded, and the sample standard deviation of the successful
\* durations (square root of: squared deviations from the mean over n - 1)
\* when two or more did.
C8_Dispersion ==
    (Aggregated /\ ~stats.failed) =>
        /\ SampleSize < 2 => stats.std_dev = Fraction(0, 1)
        /\ SampleSize >= 2 =>
            /\ stats.std_dev.den = SampleSize * (SampleSize - 1)
            /\ SampleSize * stats.std_dev.num = ScaledDeviations

\* a single success of 2000 beside four failures: dispersion 0
C8_Witness ==
    /\ Aggregated
    /\ ~stats.failed
    /\ failures = 4
    /\ sample[2000] = 1
    /\ stats.median_time = 2000
    /\ stats.std_dev = Fraction(0, 1)

\* C9: detect_compilers never raises and never fails to return, and the
\* registry it returns has an entry for each toolchain.
C9_DetectNeverFails ==
    /\ pc # "raised"
    /\ pc # "blocked"
    /\ pc = "constructed" => DOMAIN compilers = KeySet

\* The probe command of a toolchain, and the number of tokens its version
\* is read from.
ProbeOf(key) ==
    CASE key = "ea" -> "cargo build" [] key = "rust" -> "rustc --version"
      [] key = "cpp" -> "g++ --version" [] OTHER -> "go version"

TokensNeeded(key) ==
    CASE key = "rust" -> 2 [] key = "go" -> 3 [] key = "cpp" -> 1 [] OTHER -> 0

\* C10: after a probe that exited 0 with fewer tokens on stdout than the
\* version is read from, the toolchain is in the registry, available, with
\* the version 'unknown', and nothing was raised.
C10_UnknownVersionSentinel ==
    \A key \in KeySet :
        (/\ proc.cmd = ProbeOf(key)
         /\ ~proc.alive
         /\ proc.returncode = 0
         /\ Len(strip_split(proc.stdout)) < TokensNeeded(key)) =>
            /\ pc # "raised"
            /\ key \in DOMAIN compilers
            /\ compilers[key].available
            /\ compilers[key].version = <<"unknown">>

CorpusComplete ==
    \A k \in DOMAIN test_programs :
        \A key \in DOMAIN compilers :
            \E j \in DOMAIN test_programs[k].programs :
                test_programs[k].programs[j] = key

HasUnknownKey ==
    \E k \in DOMAIN test_programs :
        \E j \in DOMAIN test_programs[k].programs :
            test_programs[k].programs[j] \notin DOMAIN compilers

C14_TrialFailureIsData ==
    /\ ~(pc = "raised" /\ exc = "FileNotFoundError")
    /\ (pc = "trials" /\ proc.returncode \notin {None, 0}) => ~result.success

\* C15: the trial loop of a pair counts every trial that returned, failed
\* or not, and is left for the aggregation after exactly 5 of them; the
\* durations kept for the statistics are those of the successful trials
\* only.
C15_ExactlyFiveTrials ==
    /\ pc = "trials" =>
         /\ i = SampleSize + failures
         /\ i <= 5
         /\ Len(iteration_results) = SampleSize
    /\ Aggregated =>
         /\ SampleSize + failures = 5
         /\ Len(iteration_results) = SampleSize

\* a pair aggregated after three failed and two successful trials
C15_Witness ==
    /\ Aggregated
    /\ failures = 3
    /\ SampleSize = 2
    /\ Len(iteration_results) = 2
    /\ ~stats.failed

\* The pairs run_comprehensive_benchmarks attempts, in the order it comes to
\* them: test by test, the available toolchains of the test's programs.
AttemptedOn(k) ==
    LET Attempted(key) == key \in DOMAIN compilers /\ compilers[key].available
        keys == SelectSeq(test_programs[k].programs, Attempted)
    IN [j \in DOMAIN keys |-> <<keys[j], test_programs[k].test_name>>]

RECURSIVE AttemptedUpTo(_)
AttemptedUpTo(k) ==
    IF k = 0 THEN <<>> ELSE AttemptedUpTo(k - 1) \o AttemptedOn(k)

RecordedPairs ==
    [k \in DOMAIN results |-> <<results[k].compiler, results[k].test_name>>]

\* C16: when run_comprehensive_benchmarks has returned, self.results holds
\* one record for each pair that was attempted, those whose trials all
\* failed included, in the order the pairs were processed.
C16_OneRecordPerAttemptedPair ==
    pc = "ran" => RecordedPairs = AttemptedUpTo(Len(test_programs))

\* C17: a single-trial call returns success = True only when the build
\* exited with status 0 and left its artifact.
C17_SuccessRequiresArtifact ==
    (pc = "returned" /\ ret.success) =>
        /\ proc.returncode = 0
        /\ frame.produced # None

\* C18: a single-trial call that returns success = False, or whose build
\* left no artifact, returns no output size.
C18_NoSizeWithoutSuccess ==
    (pc = "returned" /\ (~ret.success \/ frame.produced = None)) =>
        ret.output_size_bytes = None

\* the std_dev computed for the record of a toolchain on a test
StdDevOf(c, t) ==
    std_devs[CHOOSE k \in DOMAIN results :
                results[k].compiler = c /\ results[k].test_name = t]

\* a <= b for two fractions of positive denominator
AtMostFraction(a, b) == a.num * b.den <= b.num * a.den

Trials ==
    {Context(pc, exc, frame, ret, calls, proc)}
    \cup {parked[k] : k \in DOMAIN parked}

InProgress(t) == t.pc \in {"try", "running", "exited", "unlink", "finally", "blocked"}

SourcePath(t) == Path(t.frame.temp_file, Suffix(t.frame.compiler))

ArtifactPath(t) == Path(t.frame.temp_file, ArtifactSuffix(t.frame.compiler))

C30_SizeOfLastTrial ==
    (Aggregated /\ ~stats.failed) =>
        /\ HasRecord(stats.compiler, stats.test_name)
        /\ results[Len(results)].output_size_bytes = result.output_size_bytes

C24_AvailableOnlyAfterExitZero ==
    \A key \in DOMAIN compilers :
        /\ compilers[key].available =>
             (host[key].kind = "exit" /\ host[key].returncode = 0)
        /\ (\/ host[key].kind = "missing"
            \/ (host[key].kind = "exit" /\ host[key].returncode # 0)) =>
             ~compilers[key].available

\* a registry returned on a machine where rustc exits 0, go exits 1 and
\* the other binaries are not found
C24_Witness ==
    /\ pc = "constructed"
    /\ host["ea"].kind = "missing" /\ ~compilers["ea"].available
    /\ host["rust"].kind = "exit" /\ host["rust"].returncode = 0
    /\ compilers["rust"].available
    /\ host["go"].kind = "exit" /\ host["go"].returncode = 1
    /\ ~compilers["go"].available

\* C22: no step of run_comprehensive_benchmarks (the single-trial calls it
\* makes included), of generate_performance_report or of save_results
\* changes the registry built at construction.
C22_RegistryFrozen == [][compilers' = compilers]_vars

\* the whole of main has run on a host with one toolchain installed, whose
\* builds all failed
C22_Witness ==
    /\ pc = "saved"
    /\ \E key \in KeySet : compilers[key].available
    /\ failures = iterations

\* C23: the duration a single-trial call returns after a build is not
\* negative, and when the clock was not set back it is the time the build
\* ran, none of the time the call spent before the spawn or after the exit.
C23_DurationBracketsBuild ==
    (pc = "returned" /\ frame.spawned) =>
        /\ ret.compilation_time_ms >= 0
        /\ ~frame.adjusted => ret.compilation_time_ms = frame.built * 1000

\* C21: in the trial loop of a pair a build process is alive only while the
\* single-trial call that started it waits for it; when a call is made, and
\* so when the next trial starts, no process is alive and no file of an
\* earlier trial is left; and a trial in progress has on disk only its own
\* temporary source and artifact.
C21_TrialsSequential ==
    /\ proc.alive => pc \in {"running", "blocked"}
    /\ pc = "trials" => (~proc.alive /\ fs = {})
    /\ pc \in {"try", "running", "blocked", "exited", "unlink", "finally"} =>
         \A f \in fs : f.path \in {temp_path, llvm_file}

\* the build of the second trial is running, the first trial having
\* succeeded and left an artifact that was measured and removed
C21_Witness ==
    /\ i = 1
    /\ pc = "running"
    /\ proc.alive
    /\ result.success
    /\ result.output_size_bytes = 1
    /\ fs = {[path |-> temp_path, size |-> 0]}

\* C27: once run_benchmark has been called, its result is None when the
\* command could not be launched, timed out or exited non-zero; and no file
\* has been written when the result is None or the empty text, or when the
\* parse has found no group.
C27_NoFileWithoutResults ==
    pc # "main" =>
        /\ (proc = NoProc \/ proc.returncode # 0) => honest.output = NoOutput
        /\ (\/ honest.output.none
            \/ honest.output.lines = <<>>
            \/ DOMAIN honest.results = {}) => fs = {}

\* main has returned after a command that printed a group and a timing of
\* it and exited 1
C27_Witness ==
    /\ pc = "done"
    /\ proc.returncode = 1
    /\ Len(proc.stdout) = 2
    /\ DOMAIN parse_benchmark_results(proc.stdout).results # {}
    /\ honest.output = NoOutput
    /\ fs = {}

\* a time string that denotes a number other than zero
NonZero(group, name) == name \in DOMAIN group /\ group[name].value >= 1

\* C28: analyze_results does not raise ZeroDivisionError; in each comparison
\* it has written, a competitor has a speedup or a percent entry only when
\* the baseline and the competitor both denote a number other than zero,
\* and has no entry at all when the baseline does not.
C28_NoDivisionByZero ==
    /\ exc # "ZeroDivisionError"
    /\ pc = "report" =>
         \A k \in DOMAIN Comparisons :
            LET cmp == Comparisons[k] IN
            cmp.key \in DOMAIN honest.comparisons =>
                LET group == honest.results[cmp.group]
                    entries == DOMAIN honest.comparisons[cmp.key]
                IN \A j \in DOMAIN cmp.competitors :
                      LET c == cmp.competitors[j] IN
                      /\ (SpeedupKey(c) \in entries \/ PercentKey(c) \in entries) =>
                            (NonZero(group, cmp.ea) /\ NonZero(group, c.name))
                      /\ ~NonZero(group, cmp.ea) =>
                            entries \cap {TimeKey(c.name), SpeedupKey(c), PercentKey(c)} = {}

\* the frontend comparison of a baseline of 0 ns and a rustc time of 1 ms:
\* the baseline alone is written
C28_Witness ==
    /\ pc = "report"
    /\ "frontend_only_fair_comparison" \in DOMAIN honest.results
    /\ DOMAIN honest.results["frontend_only_fair_comparison"] = {"ea_frontend", "rustc_frontend"}
    /\ honest.results["frontend_only_fair_comparison"]["ea_frontend"] = TimeStr(0, "ns")
    /\ honest.results["frontend_only_fair_comparison"]["rustc_frontend"] = TimeStr(1, "ms")
    /\ DOMAIN honest.comparisons["frontend_only"] = {"ea_frontend_us"}

\* The lines of the output that was parsed; which of them name a group, and
\* which give a timing (a name before 'time:' and three time strings of a
\* unit the pattern knows).
ParsedLines == honest.output.lines

ParseDone == pc \in {"analyze", "report"} \/ (pc = "raised" /\ exc # "IndexError")

NamesGroup(k, g) ==
    LET words == ParsedLines[k].words IN
    \E j \in 1..(Len(words) - 1) :
        /\ words[j] = "Benchmarking"
        /\ words[j + 1] = g
        /\ \A m \in 1..(j - 1) : words[m] # "Benchmarking"

IsGroupLine(k) == \E j \in DOMAIN ParsedLines[k].words : ParsedLines[k].words[j] = "Benchmarking"

GivesTiming(k, n) ==
    LET words == ParsedLines[k].words
        values == ParsedLines[k].values
    IN /\ \E j \in 2..Len(words) :
            /\ words[j] = "time:"
            /\ words[j - 1] = n
            /\ \A m \in 1..(j - 1) : words[m] # "time:"
       /\ Len(values) = 3
       /\ \A j \in 1..3 : values[j].unit \in {"s", "ms", "µs", "ns"}

\* line k gives a timing of n, and the last group line up to it names g
Filed(k, g, n) ==
    /\ GivesTiming(k, n)
    /\ \E j \in 1..k :
         /\ NamesGroup(j, g)
         /\ \A m \in (j + 1)..k : ~IsGroupLine(m)

\* C29: after the parse, results holds an entry for a group and a name
\* exactly when some line gives a timing of the name under the group (so a
\* timing before the first group line is in no entry), and the entry is the
\* middle time string of the last such line.
C29_TimingsFiledUnderGroup ==
    ParseDone =>
        /\ \A k \in DOMAIN ParsedLines : \A g \in GroupNames, n \in BenchmarkNames :
              Filed(k, g, n) =>
                 /\ g \in DOMAIN honest.results
                 /\ n \in DOMAIN honest.results[g]
        /\ \A g \in DOMAIN honest.results : \A n \in DOMAIN honest.results[g] :
              /\ g \in GroupNames
              /\ n \in BenchmarkNames
              /\ \E k \in DOMAIN ParsedLines :
                   /\ Filed(k, g, n)
                   /\ \A m \in (k + 1)..Len(ParsedLines) : ~Filed(m, g, n)
                   /\ honest.results[g][n] = ParsedLines[k].values[2]

\* a group line and two timings of ea_frontend, of middle values 0 µs and
\* 1 µs: the entry is the later one
C29_Witness ==
    /\ ParseDone
    /\ Len(ParsedLines) = 3
    /\ NamesGroup(1, "frontend_only_fair_comparison")
    /\ Filed(2, "frontend_only_fair_comparison", "ea_frontend")
    /\ Filed(3, "frontend_only_fair_comparison", "ea_frontend")
    /\ ParsedLines[2].values[2] = TimeStr(0, "µs")
    /\ ParsedLines[3].values[2] = TimeStr(1, "µs")
    /\ honest.results["frontend_only_fair_comparison"]["ea_frontend"] = TimeStr(1, "µs")

====
